---- MODULE Spec2Model ----
(***************************************************************************)
(* A model of setup.py, the build front end of the dlib python bindings.   *)
(*                                                                         *)
(* Three parts of the script are modelled, each under its own              *)
(* specification:                                                          *)
(*   SpecExtract  get_extra_cmake_options: the scan of sys.argv            *)
(*   SpecBuild    CMakeBuild.run / build_extension and rmtree              *)
(*   SpecVersion  read_version_from_cmakelists                             *)
(*                                                                         *)
(* A python string is a sequence of symbols.  A symbol is one character    *)
(* ("-", " ", "=", ".", a digit) or a run of letters that the script never *)
(* looks inside ("yes", "clean", "CMAKE_BUILD_TYPE").                      *)
(***************************************************************************)
EXTENDS Integers, Sequences, FiniteSets, Bags, TLC

VARIABLES
    \* ---- get_extra_cmake_options
    sys_argv,               \* sys.argv, filtered in place
    argv,                   \* the copy the loop iterates over
    opt_idx,                \* index (1-based) of the next element of argv
    opt_key,                \* pending flag kind, NoneKey when none
    x_options,              \* _cmake_extra_options
    x_clean,                \* _clean_build_folder
    x_pc,                   \* "loop", "done", "error"
    x_error,                \* exception raised by the scan
    \* ---- module globals set at line 79, read by the build
    cmake_extra_options,
    clean_build_folder,
    \* ---- CMakeBuild
    b_pc,                   \* position of the build command
    env,                    \* host: platform, tool presence and version, cpu count
    debug,                  \* self.debug
    cmake_args,
    build_args,
    fs,                     \* the build folder: exists, entries, modes
    prior,                  \* the build folder as build_extension found it
    calls,                  \* subprocess invocations, oldest first
    fs_ops,                 \* filesystem operations performed, oldest first
    b_error,                \* exception that ended the build
    \* ---- read_version_from_cmakelists
    cmake_file,             \* lines of dlib/CMakeLists.txt
    v_pc,                   \* "major", "minor", "patch", "return", "done", "error"
    major, minor, patch,
    version,                \* returned string, NoVersion until returned
    v_error

xvars == <<sys_argv, argv, opt_idx, opt_key, x_options, x_clean, x_pc, x_error>>
gvars == <<cmake_extra_options, clean_build_folder>>
bvars == <<b_pc, env, debug, cmake_args, build_args, fs, prior, calls, fs_ops, b_error>>
vvars == <<cmake_file, v_pc, major, minor, patch, version, v_error>>
vars == <<xvars, gvars, bvars, vvars>>

(***************************************************************************)
(* Bounds                                                                  *)
(***************************************************************************)
MaxArgs == 4        \* arguments after sys.argv[0]

(***************************************************************************)
(* Python values                                                           *)
(***************************************************************************)
NoError == [type |-> "none"]
NoneKey == <<>>

Range(s) == {s[i] : i \in 1..Len(s)}

SeqsUpTo(S, n) == UNION {[1..k -> S] : k \in 0..n}

Whitespace == {" ", "\t"}

\* str.strip(): drop leading and trailing whitespace
RECURSIVE lstrip(_)
lstrip(s) == IF s # <<>> /\ Head(s) \in Whitespace THEN lstrip(Tail(s)) ELSE s

RECURSIVE rstrip(_)
rstrip(s) ==
    IF s # <<>> /\ s[Len(s)] \in Whitespace THEN rstrip(SubSeq(s, 1, Len(s) - 1)) ELSE s

strip(s) == rstrip(lstrip(s))

\* str.lower() on the symbols the model uses
lower_sym(c) ==
    CASE c = "YES" -> "yes"
      [] c = "NO" -> "no"
      [] OTHER -> c

lower(s) == [i \in 1..Len(s) |-> lower_sym(s[i])]

\* list.index(x): position of the first element equal to x, 0 when absent
index_of(list, x) ==
    IF x \in Range(list)
    THEN CHOOSE i \in 1..Len(list) : list[i] = x /\ \A j \in 1..(i - 1) : list[j] # x
    ELSE 0

\* the list without its element at position i
drop_at(list, i) == SubSeq(list, 1, i - 1) \o SubSeq(list, i + 1, Len(list))

\* list.remove(x): removes the first element equal to x
list_remove(list, x) == drop_at(list, index_of(list, x))

(***************************************************************************)
(* Command-line tokens                                                     *)
(***************************************************************************)
T_clean == <<"-", "-", "clean">>
T_yes == <<"-", "-", "yes">>
T_no == <<"-", "-", "no">>
T_compiler_flags == <<"-", "-", "compiler-flags">>
T_setup_py == <<"setup", ".", "py">>
T_build == <<"build">>
T_padded == <<" ", "-", "O2", " ">>
T_FOO == <<"FOO">>
T_BAR == <<"BAR">>
T_O2_Wall == <<"-", "O2", " ", "-", "Wall">>

ValueFlags == {T_yes, T_no, T_compiler_flags}

Tokens == {T_clean, T_yes, T_no, T_compiler_flags, T_build, T_padded}

\* the example of the module docstring and of the specification
DocExample == <<T_setup_py, T_yes, T_FOO, T_no, T_BAR, T_compiler_flags, T_O2_Wall>>

ArgvInputs ==
    {<<T_setup_py>> \o s : s \in SeqsUpTo(Tokens, MaxArgs)} \cup {DocExample}

\* a variant of fmt_compiler_flags that forgets to strip the value
fmt_compiler_flags_unstripped(arg) == <<"-", "D", "CMAKE_CXX_FLAGS", "=">> \o arg

\* the cmake switches of lines 56, 58 and 60
fmt_compiler_flags(arg) == <<"-", "D", "CMAKE_CXX_FLAGS", "=">> \o strip(arg)
fmt_yes(arg) == <<"-", "D">> \o strip(arg) \o <<"=", "yes">>
fmt_no(arg) == <<"-", "D">> \o strip(arg) \o <<"=", "no">>

\* lines 55-60: the switch appended for a value token under a pending flag
switch_for(key, arg) ==
    CASE key = <<"compiler-flags">> -> <<fmt_compiler_flags(arg)>>
      [] key = <<"yes">> -> <<fmt_yes(arg)>>
      [] key = <<"no">> -> <<fmt_no(arg)>>
      [] OTHER -> <<>>

\* line 73: arg[2:].lower()
key_of(arg) == lower(SubSeq(arg, 3, Len(arg)))

\* a variant of argv_remove that filters out every element equal to arg
argv_remove_every(list, arg) == SelectSeq(list, LAMBDA x : x # arg)

\* sys.argv.remove(arg) at lines 63, 69 and 74
argv_remove(list, arg) == list_remove(list, arg)

ValueError == [type |-> "ValueError", msg |-> "list.remove(x): x not in list"]

(***************************************************************************)
(* get_extra_cmake_options, one action per branch of the loop body         *)
(***************************************************************************)
InLoop == x_pc = "loop" /\ opt_idx <= Len(argv)

\* the removal shared by the three consuming branches
RemoveAndContinue(arg) ==
    IF arg \in Range(sys_argv)
    THEN /\ sys_argv' = argv_remove(sys_argv, arg)
         /\ opt_idx' = opt_idx + 1
         /\ UNCHANGED <<x_pc, x_error>>
    ELSE /\ x_pc' = "error"
         /\ x_error' = ValueError
         /\ UNCHANGED <<sys_argv, opt_idx>>

\* lines 55-65: the token after a value-consuming flag
ConsumeValue ==
    /\ InLoop
    /\ opt_key # NoneKey
    /\ x_options' = x_options \o switch_for(opt_key, argv[opt_idx])
    /\ RemoveAndContinue(argv[opt_idx])
    /\ opt_key' = IF x_pc' = "error" THEN opt_key ELSE NoneKey
    /\ UNCHANGED <<argv, x_clean, gvars, bvars, vvars>>

\* lines 67-70
ConsumeClean ==
    /\ InLoop
    /\ opt_key = NoneKey
    /\ argv[opt_idx] = T_clean
    /\ x_clean' = TRUE
    /\ RemoveAndContinue(argv[opt_idx])
    /\ UNCHANGED <<argv, opt_key, x_options, gvars, bvars, vvars>>

\* lines 72-75
ConsumeFlag ==
    /\ InLoop
    /\ opt_key = NoneKey
    /\ argv[opt_idx] # T_clean
    /\ argv[opt_idx] \in ValueFlags
    /\ RemoveAndContinue(argv[opt_idx])
    /\ opt_key' = IF x_pc' = "error" THEN opt_key ELSE key_of(argv[opt_idx])
    /\ UNCHANGED <<argv, x_options, x_clean, gvars, bvars, vvars>>

\* line 54: a token none of the branches takes
SkipOther ==
    /\ InLoop
    /\ opt_key = NoneKey
    /\ argv[opt_idx] # T_clean
    /\ argv[opt_idx] \notin ValueFlags
    /\ opt_idx' = opt_idx + 1
    /\ UNCHANGED <<sys_argv, argv, opt_key, x_options, x_clean, x_pc, x_error,
                   gvars, bvars, vvars>>

\* lines 77 and 79
ExtractReturn ==
    /\ x_pc = "loop"
    /\ opt_idx > Len(argv)
    /\ x_pc' = "done"
    /\ cmake_extra_options' = x_options
    /\ clean_build_folder' = x_clean
    /\ UNCHANGED <<sys_argv, argv, opt_idx, opt_key, x_options, x_clean, x_error,
                   bvars, vvars>>

ExtractNext ==
    \/ ConsumeValue
    \/ ConsumeClean
    \/ ConsumeFlag
    \/ SkipOther
    \/ ExtractReturn

(***************************************************************************)
(* The host and the build folder                                           *)
(***************************************************************************)
MaxCpu == 2         \* multiprocessing.cpu_count() ranges over 1..MaxCpu

\* names bound in the module namespace by lines 29-41
ModuleNames ==
    {"os", "re", "sys", "shutil", "platform", "subprocess", "multiprocessing",
     "log", "ceil", "setup", "Extension", "build_ext", "LooseVersion"}

\* ext_modules, line 193
Extensions == <<[name |-> "dlib", sourcedir |-> <<"tools/python">>]>>

\* text matched by ([\d.]+) in the output of cmake --version, line 111
V_2_8_12 == <<"2", ".", "8", ".", "1", "2">>
V_3_0_2 == <<"3", ".", "0", ".", "2">>
V_3_1_0 == <<"3", ".", "1", ".", "0">>
V_3_10_2 == <<"3", ".", "1", "0", ".", "2">>
NoVersionOut == <<>>
VersionOutputs == {V_2_8_12, V_3_0_2, V_3_1_0, V_3_10_2}

\* the literal '3.1.0' of line 115
MinCMakeVersion == <<"3", ".", "1", ".", "0">>

Digits == {"0", "1", "2", "3", "4", "5", "6", "7", "8", "9"}

digit_val(c) ==
    CASE c = "0" -> 0 [] c = "1" -> 1 [] c = "2" -> 2 [] c = "3" -> 3 [] c = "4" -> 4
      [] c = "5" -> 5 [] c = "6" -> 6 [] c = "7" -> 7 [] c = "8" -> 8 [] c = "9" -> 9

digit_sym(d) ==
    CASE d = 0 -> "0" [] d = 1 -> "1" [] d = 2 -> "2" [] d = 3 -> "3" [] d = 4 -> "4"
      [] d = 5 -> "5" [] d = 6 -> "6" [] d = 7 -> "7" [] d = 8 -> "8" [] d = 9 -> "9"

\* str(n) for n >= 0
RECURSIVE str_int(_)
str_int(n) == IF n < 10 THEN <<digit_sym(n)>> ELSE str_int(n \div 10) \o <<digit_sym(n % 10)>>

\* LooseVersion.parse: the runs of digits between dots, as integers.
\* done: components so far; cur: value of the run being read, -1 when none
RECURSIVE parse_version(_, _, _)
parse_version(s, done, cur) ==
    IF s = <<>> THEN (IF cur >= 0 THEN Append(done, cur) ELSE done)
    ELSE IF Head(s) \in Digits
         THEN parse_version(Tail(s), done,
                            (IF cur >= 0 THEN cur * 10 ELSE 0) + digit_val(Head(s)))
         ELSE parse_version(Tail(s), IF cur >= 0 THEN Append(done, cur) ELSE done, -1)

LooseVersion(s) == parse_version(s, <<>>, -1)

\* python's list comparison a < b
RECURSIVE list_lt(_, _)
list_lt(a, b) ==
    IF b = <<>> THEN FALSE
    ELSE IF a = <<>> THEN TRUE
    ELSE IF Head(a) # Head(b) THEN Head(a) < Head(b)
    ELSE list_lt(Tail(a), Tail(b))

\* a variant of version_too_old that compares the first components only
version_too_old_major_only(out) ==
    LooseVersion(out)[1] < LooseVersion(MinCMakeVersion)[1]

\* line 115: LooseVersion(self.get_cmake_version()) < '3.1.0'
version_too_old(out) == list_lt(LooseVersion(out), LooseVersion(MinCMakeVersion))

EnvInputs ==
    {[windows |-> w, cmake_found |-> f, cmake_version |-> v, is64 |-> b,
      cpu_count |-> n, python3 |-> p] :
        w \in BOOLEAN, f \in BOOLEAN, v \in VersionOutputs \cup {NoVersionOut},
        b \in BOOLEAN, n \in 1..MaxCpu, p \in BOOLEAN}

\* a host without cmake prints no version; a host with cmake prints one
Hosts == {e \in EnvInputs : e.cmake_found <=> (e.cmake_version # NoVersionOut)}

Files == {"CMakeCache.txt", "dlib.o"}
Modes == {"absent", "rw", "ro", "busy"}

NoFolder == [exists |-> FALSE, dirmode |-> "absent", entries |-> [f \in Files |-> "absent"]]

FolderInputs ==
    {NoFolder} \cup
    {[exists |-> TRUE, dirmode |-> d, entries |-> m] : d \in {"rw", "ro"}, m \in [Files -> Modes]}

Present(folder) == {f \in Files : folder.entries[f] # "absent"}

\* switches the Option Extractor can have produced
T_AVX == <<"USE_AVX_INSTRUCTIONS">>
ExtraInputs ==
    {<<>>,
     <<fmt_yes(T_AVX)>>,
     <<fmt_no(T_AVX), fmt_compiler_flags(T_padded)>>,
     <<fmt_no(<<"CMAKE_LIBRARY_OUTPUT_DIRECTORY">>), fmt_yes(<<"CMAKE_BUILD_TYPE">>)>>,
     <<fmt_yes(<<"CMAKE_LIBRARY_OUTPUT_DIRECTORY", "_", "RELEASE">>),
       fmt_no(<<"PYTHON_EXECUTABLE">>)>>}

(***************************************************************************)
(* Exceptions                                                              *)
(***************************************************************************)
\* lines 109-110
ToolNotFound ==
    [type |-> "RuntimeError",
     text |-> "CMake must be installed to build the following extensions: ",
     names |-> [i \in 1..Len(Extensions) |-> Extensions[i].name]]

\* line 116
UnsupportedToolVersion ==
    [type |-> "RuntimeError", text |-> "CMake >= 3.1.0 is required on Windows"]

\* subprocess.check_call: a non-zero exit status
CalledProcessError(rc, cmd) == [type |-> "CalledProcessError", returncode |-> rc, cmd |-> cmd]

\* subprocess: the executable is not on the path
ExecNotFound == [type |-> "OSError", errno |-> "ENOENT", path |-> "cmake"]

OSError(errno, path) == [type |-> "OSError", errno |-> errno, path |-> path]

NameError(name) == [type |-> "NameError", name |-> name]

(***************************************************************************)
(* Argument vectors, lines 122-141                                         *)
(***************************************************************************)
ExtDir == <<"/", "build", "/", "lib">>          \* extdir, line 122
PythonExe == <<"/", "usr", "/", "bin", "/", "python">>     \* sys.executable

upper_sym(c) ==
    CASE c = "Debug" -> "DEBUG"
      [] c = "Release" -> "RELEASE"
      [] OTHER -> c

upper(s) == [i \in 1..Len(s) |-> upper_sym(s[i])]

\* line 129
cfg_of(dbg) == IF dbg THEN <<"Debug">> ELSE <<"Release">>

\* lines 124-125
fixed_args(extdir) ==
    << <<"-", "D", "CMAKE_LIBRARY_OUTPUT_DIRECTORY", "=">> \o extdir,
       <<"-", "D", "PYTHON_EXECUTABLE", "=">> \o PythonExe >>

\* lines 132-135 and 138: the switches of the platform branch
platform_args(e, cfg, extdir) ==
    IF e.windows
    THEN << <<"-", "D", "CMAKE_LIBRARY_OUTPUT_DIRECTORY", "_">> \o upper(cfg) \o <<"=">> \o extdir >>
         \o (IF e.is64 THEN << <<"-", "A">>, <<"x64">> >> ELSE <<>>)
    ELSE << <<"-", "D", "CMAKE_BUILD_TYPE", "=">> \o cfg >>

\* a variant of synthesize_cmake_args that starts from the extra switches
synthesize_cmake_args_extra_first(e, dbg, extra, extdir) ==
    extra \o fixed_args(extdir) \o platform_args(e, cfg_of(dbg), extdir)

\* lines 124-138: cmake_args in the order the statements extend it
synthesize_cmake_args(e, dbg, extra, extdir) ==
    fixed_args(extdir) \o extra \o platform_args(e, cfg_of(dbg), extdir)

\* line 140: int(ceil(cpu_count / 2.0))
num_cores(n) == (n + 1) \div 2

\* lines 130, 136 and 141
synthesize_build_args(e, dbg) ==
    << <<"-", "-", "config">>, cfg_of(dbg), <<"-", "-">> >>
    \o (IF e.windows THEN << <<"/", "m">> >>
        ELSE << <<"-", "j">> \o str_int(num_cores(e.cpu_count)) >>)

configure_cmd(ext, args) == << <<"cmake">>, ext.sourcedir >> \o args
build_cmd(args) == << <<"cmake">>, <<"-", "-", "build">>, <<".">> >> \o args
version_cmd == << <<"cmake">>, <<"-", "-", "version">> >>

(***************************************************************************)
(* rmtree, lines 87-100                                                    *)
(***************************************************************************)
BuildFolder == "build_temp"

mode_of(folder, path) == IF path = BuildFolder THEN folder.dirmode ELSE folder.entries[path]

\* what the host answers to os.unlink / os.remove / os.rmdir of an entry:
\* a read-only entry is refused on Windows and removed on POSIX
remove_result(e, mode) ==
    CASE mode = "rw" -> "ok"
      [] mode = "ro" -> (IF e.windows THEN "EACCES" ELSE "ok")
      [] mode = "busy" -> "EBUSY"

after_remove(folder, path) ==
    IF path = BuildFolder THEN NoFolder ELSE [folder EXCEPT !.entries[path] = "absent"]

\* os.chmod(path, S_IRWXU | S_IRWXG | S_IRWXO)
after_chmod(folder, path) ==
    IF path = BuildFolder
    THEN [folder EXCEPT !.dirmode = IF @ = "ro" THEN "rw" ELSE @]
    ELSE [folder EXCEPT !.entries[path] = IF @ = "ro" THEN "rw" ELSE @]

\* the function shutil.rmtree reports for a file it could not remove
file_remover(e) == IF e.python3 THEN "os.unlink" ELSE "os.remove"

FsOp(op, path, result) == [op |-> op, path |-> path, result |-> result]

\* lines 90-96: the onerror handler.  Its result: the exception it leaves
\* (NoError when it returns), the operations it performed, the folder after.
remove_read_only(func, path, exc, folder, e) ==
    IF func \in {"os.rmdir", "os.remove"}
    THEN IF "errno" \notin ModuleNames
         THEN [raised |-> NameError("errno"), ops |-> <<>>, folder |-> folder]
         ELSE IF exc.errno = "EACCES"
              THEN IF "stat" \notin ModuleNames
                   THEN [raised |-> NameError("stat"), ops |-> <<>>, folder |-> folder]
                   ELSE LET chm == after_chmod(folder, path)
                            r == remove_result(e, mode_of(chm, path))
                        IN  [raised |-> IF r = "ok" THEN NoError ELSE OSError(r, path),
                             ops |-> <<FsOp("chmod", path, "ok"), FsOp(func, path, r)>>,
                             folder |-> IF r = "ok" THEN after_remove(chm, path) ELSE chm]
              ELSE [raised |-> exc, ops |-> <<>>, folder |-> folder]
    ELSE [raised |-> exc, ops |-> <<>>, folder |-> folder]

\* one removal attempted by shutil.rmtree, with the handler run on failure
rmtree_step(func, path, folder, e) ==
    LET r == remove_result(e, mode_of(folder, path))
    IN  IF r = "ok"
        THEN [raised |-> NoError, ops |-> <<FsOp(func, path, "ok")>>,
              folder |-> after_remove(folder, path)]
        ELSE LET h == remove_read_only(func, path, OSError(r, path), folder, e)
             IN  [raised |-> h.raised, ops |-> <<FsOp(func, path, r)>> \o h.ops,
                  folder |-> h.folder]

(***************************************************************************)
(* CMakeBuild.run and build_extension                                      *)
(***************************************************************************)
ExitCodes == {0, 1, 2}

Call(kind, cmd, started, rc) ==
    [kind |-> kind, cmd |-> cmd, cwd |-> BuildFolder, started |-> started, rc |-> rc,
     folder |-> fs]

Fail(err) == b_pc' = "failed" /\ b_error' = err

\* lines 114-115 with 106-110: Windows, cmake --version cannot be started
RunToolNotFound ==
    /\ b_pc = "run"
    /\ env.windows
    /\ ~env.cmake_found
    /\ calls' = Append(calls, Call("version", version_cmd, FALSE, -1))
    /\ Fail(ToolNotFound)
    /\ UNCHANGED <<env, debug, cmake_args, build_args, fs, prior, fs_ops, gvars, xvars, vvars>>

\* lines 114-116: Windows, the version found is below the minimum
RunVersionTooOld ==
    /\ b_pc = "run"
    /\ env.windows
    /\ env.cmake_found
    /\ version_too_old(env.cmake_version)
    /\ calls' = Append(calls, Call("version", version_cmd, TRUE, 0))
    /\ Fail(UnsupportedToolVersion)
    /\ UNCHANGED <<env, debug, cmake_args, build_args, fs, prior, fs_ops, gvars, xvars, vvars>>

\* lines 114-118: Windows, the version is accepted
RunVersionOk ==
    /\ b_pc = "run"
    /\ env.windows
    /\ env.cmake_found
    /\ ~version_too_old(env.cmake_version)
    /\ calls' = Append(calls, Call("version", version_cmd, TRUE, 0))
    /\ b_pc' = "build_extension"
    /\ UNCHANGED <<env, debug, cmake_args, build_args, fs, prior, fs_ops, b_error,
                   gvars, xvars, vvars>>

\* lines 114 and 118: any other platform goes straight to the extensions
RunPosix ==
    /\ b_pc = "run"
    /\ ~env.windows
    /\ b_pc' = "build_extension"
    /\ UNCHANGED <<env, debug, cmake_args, build_args, fs, prior, calls, fs_ops, b_error,
                   gvars, xvars, vvars>>

\* lines 122-143
SynthesizeArgs ==
    /\ b_pc = "build_extension"
    /\ cmake_args' = synthesize_cmake_args(env, debug, cmake_extra_options, ExtDir)
    /\ build_args' = synthesize_build_args(env, debug)
    /\ b_pc' = "prepare"
    /\ UNCHANGED <<env, debug, fs, prior, calls, fs_ops, b_error, gvars, xvars, vvars>>

\* lines 145-146 and 98: whether rmtree has anything to remove
Prepare ==
    /\ b_pc = "prepare"
    /\ b_pc' = IF clean_build_folder /\ fs.exists THEN "rmtree" ELSE "makedirs"
    /\ UNCHANGED <<env, debug, cmake_args, build_args, fs, prior, calls, fs_ops, b_error,
                   gvars, xvars, vvars>>

RmtreeApply(step, next_pc) ==
    /\ fs' = step.folder
    /\ fs_ops' = fs_ops \o step.ops
    /\ IF step.raised = NoError
       THEN b_pc' = next_pc /\ UNCHANGED b_error
       ELSE Fail(step.raised)
    /\ UNCHANGED <<env, debug, cmake_args, build_args, prior, calls, gvars, xvars, vvars>>

\* line 100: shutil.rmtree removes one entry of the folder
RmtreeEntry ==
    /\ b_pc = "rmtree"
    /\ \E f \in Present(fs) : RmtreeApply(rmtree_step(file_remover(env), f, fs, env), "rmtree")

\* line 100: shutil.rmtree removes the emptied folder itself
RmtreeFolder ==
    /\ b_pc = "rmtree"
    /\ Present(fs) = {}
    /\ RmtreeApply(rmtree_step("os.rmdir", BuildFolder, fs, env), "makedirs")

\* lines 147-148
Makedirs ==
    /\ b_pc = "makedirs"
    /\ IF fs.exists
       THEN UNCHANGED <<fs, fs_ops>>
       ELSE /\ fs' = [exists |-> TRUE, dirmode |-> "rw", entries |-> [f \in Files |-> "absent"]]
            /\ fs_ops' = Append(fs_ops, FsOp("os.makedirs", BuildFolder, "ok"))
    /\ b_pc' = "configure"
    /\ UNCHANGED <<env, debug, cmake_args, build_args, prior, calls, b_error,
                   gvars, xvars, vvars>>

\* a variant of CheckCall that behaves like subprocess.call: the exit status
\* is recorded and ignored
CheckCall_status_ignored(kind, cmd, rc, next_pc) ==
    IF ~env.cmake_found
    THEN /\ calls' = Append(calls, Call(kind, cmd, FALSE, -1))
         /\ Fail(ExecNotFound)
    ELSE /\ calls' = Append(calls, Call(kind, cmd, TRUE, rc))
         /\ b_pc' = next_pc
         /\ UNCHANGED b_error

\* subprocess.check_call(cmd, cwd=build_folder)
CheckCall(kind, cmd, rc, next_pc) ==
    IF ~env.cmake_found
    THEN /\ calls' = Append(calls, Call(kind, cmd, FALSE, -1))
         /\ Fail(ExecNotFound)
    ELSE /\ calls' = Append(calls, Call(kind, cmd, TRUE, rc))
         /\ IF rc = 0
            THEN b_pc' = next_pc /\ UNCHANGED b_error
            ELSE Fail(CalledProcessError(rc, cmd))

\* lines 150-151
Configure ==
    /\ b_pc = "configure"
    /\ \E rc \in ExitCodes :
           CheckCall("configure", configure_cmd(Extensions[1], cmake_args), rc, "build")
    /\ UNCHANGED <<env, debug, cmake_args, build_args, fs, prior, fs_ops, gvars, xvars, vvars>>

\* lines 152-153, and the end of the loop of line 118
Build ==
    /\ b_pc = "build"
    /\ \E rc \in ExitCodes : CheckCall("build", build_cmd(build_args), rc, "done")
    /\ UNCHANGED <<env, debug, cmake_args, build_args, fs, prior, fs_ops, gvars, xvars, vvars>>

BuildNext ==
    \/ RunToolNotFound
    \/ RunVersionTooOld
    \/ RunVersionOk
    \/ RunPosix
    \/ SynthesizeArgs
    \/ Prepare
    \/ RmtreeEntry
    \/ RmtreeFolder
    \/ Makedirs
    \/ Configure
    \/ Build

(***************************************************************************)
(* read_version_from_cmakelists, lines 171-177                             *)
(***************************************************************************)
MaxLines == 4       \* lines of the CMakeLists.txt read

\* A line of the file: the CPACK_PACKAGE_VERSION_ field it sets ("OTHER" for
\* any other line), and the text between double quotes (NoQuote when the
\* line has no quoted text, as in set(CPACK_PACKAGE_VERSION_PATCH 2))
NoQuote == <<"<unquoted>">>
Line(field, quoted) == [field |-> field, quoted |-> quoted]

Lines ==
    {Line("MAJOR", <<"1", "9">>), Line("MINOR", <<"2", "4">>), Line("PATCH", <<"2">>),
     Line("MAJOR", <<"2", "0">>), Line("PATCH", NoQuote), Line("OTHER", <<"dlib">>)}

FileInputs == SeqsUpTo(Lines, MaxLines)

\* set\(CPACK_PACKAGE_VERSION_<field>.*\"(.*)\" matches inside the line
matches(line, field) == line.field = field /\ line.quoted # NoQuote

\* re.findall(pattern, text): the captured group of every match, in file order
RECURSIVE findall(_, _)
findall(field, text) ==
    IF text = <<>> THEN <<>>
    ELSE (IF matches(Head(text), field) THEN <<Head(text).quoted>> ELSE <<>>)
         \o findall(field, Tail(text))

\* a variant of first_of that takes the last match
first_of_last(found) == found[Len(found)]

\* the subscript [0] of lines 174-176
first_of(found) == found[1]

IndexError == [type |-> "IndexError", args |-> <<"list index out of range">>]

NoValue == <<>>
NoVersion == <<>>

\* line 177
dotted(a, b, c) == a \o <<".">> \o b \o <<".">> \o c

\* line 174
ReadMajor ==
    /\ v_pc = "major"
    /\ LET found == findall("MAJOR", cmake_file)
       IN  IF found = <<>>
           THEN v_pc' = "error" /\ v_error' = IndexError /\ UNCHANGED major
           ELSE v_pc' = "minor" /\ major' = first_of(found) /\ UNCHANGED v_error
    /\ UNCHANGED <<cmake_file, minor, patch, version, xvars, gvars, bvars>>

\* line 175
ReadMinor ==
    /\ v_pc = "minor"
    /\ LET found == findall("MINOR", cmake_file)
       IN  IF found = <<>>
           THEN v_pc' = "error" /\ v_error' = IndexError /\ UNCHANGED minor
           ELSE v_pc' = "patch" /\ minor' = first_of(found) /\ UNCHANGED v_error
    /\ UNCHANGED <<cmake_file, major, patch, version, xvars, gvars, bvars>>

\* line 176
ReadPatch ==
    /\ v_pc = "patch"
    /\ LET found == findall("PATCH", cmake_file)
       IN  IF found = <<>>
           THEN v_pc' = "error" /\ v_error' = IndexError /\ UNCHANGED patch
           ELSE v_pc' = "return" /\ patch' = first_of(found) /\ UNCHANGED v_error
    /\ UNCHANGED <<cmake_file, major, minor, version, xvars, gvars, bvars>>

\* line 177
ReturnVersion ==
    /\ v_pc = "return"
    /\ version' = dotted(major, minor, patch)
    /\ v_pc' = "done"
    /\ UNCHANGED <<cmake_file, major, minor, patch, v_error, xvars, gvars, bvars>>

VersionNext ==
    \/ ReadMajor
    \/ ReadMinor
    \/ ReadPatch
    \/ ReturnVersion

(***************************************************************************)
(* Specifications                                                          *)
(***************************************************************************)
\* Each specification observes one part of the script; the variables of the
\* other parts keep the values given here.

\* get_extra_cmake_options entered: lines 47-52
InitExtract ==
    /\ sys_argv \in ArgvInputs
    /\ argv = sys_argv
    /\ opt_idx = 1
    /\ opt_key = NoneKey
    /\ x_options = <<>>
    /\ x_clean = FALSE
    /\ x_pc = "loop"
    /\ x_error = NoError
    /\ cmake_extra_options = <<>>
    /\ clean_build_folder = FALSE
    /\ b_pc = "idle" /\ env = [windows |-> FALSE] /\ debug = FALSE
    /\ cmake_args = <<>> /\ build_args = <<>> /\ fs = NoFolder /\ prior = NoFolder
    /\ calls = <<>> /\ fs_ops = <<>> /\ b_error = NoError
    /\ cmake_file = <<>> /\ v_pc = "idle" /\ major = NoValue /\ minor = NoValue
    /\ patch = NoValue /\ version = NoVersion /\ v_error = NoError

\* CMakeBuild.run entered, the globals of line 79 set by an earlier scan
InitBuild ==
    /\ b_pc = "run"
    /\ env \in Hosts
    /\ debug \in BOOLEAN
    /\ cmake_args = <<>>
    /\ build_args = <<>>
    /\ fs \in FolderInputs
    /\ prior = fs
    /\ calls = <<>>
    /\ fs_ops = <<>>
    /\ b_error = NoError
    /\ cmake_extra_options \in ExtraInputs
    /\ clean_build_folder \in BOOLEAN
    /\ sys_argv = <<>> /\ argv = <<>> /\ opt_idx = 0 /\ opt_key = NoneKey
    /\ x_options = <<>> /\ x_clean = FALSE /\ x_pc = "idle" /\ x_error = NoError
    /\ cmake_file = <<>> /\ v_pc = "idle" /\ major = NoValue /\ minor = NoValue
    /\ patch = NoValue /\ version = NoVersion /\ v_error = NoError

\* read_version_from_cmakelists entered, line 186
InitVersion ==
    /\ cmake_file \in FileInputs
    /\ v_pc = "major"
    /\ major = NoValue
    /\ minor = NoValue
    /\ patch = NoValue
    /\ version = NoVersion
    /\ v_error = NoError
    /\ cmake_extra_options = <<>>
    /\ clean_build_folder = FALSE
    /\ sys_argv = <<>> /\ argv = <<>> /\ opt_idx = 0 /\ opt_key = NoneKey
    /\ x_options = <<>> /\ x_clean = FALSE /\ x_pc = "idle" /\ x_error = NoError
    /\ b_pc = "idle" /\ env = [windows |-> FALSE] /\ debug = FALSE
    /\ cmake_args = <<>> /\ build_args = <<>> /\ fs = NoFolder /\ prior = NoFolder
    /\ calls = <<>> /\ fs_ops = <<>> /\ b_error = NoError

SpecExtract == InitExtract /\ [][ExtractNext]_vars

SpecBuild == InitBuild /\ [][BuildNext]_vars

SpecVersion == InitVersion /\ [][VersionNext]_vars

(***************************************************************************)
(* The command-line grammar, stated on the argument list as it was given   *)
(***************************************************************************)
\* position i holds the value of a value-consuming flag standing at i - 1
RECURSIVE IsValuePos(_, _)
IsValuePos(args, i) ==
    /\ i > 1
    /\ args[i - 1] \in ValueFlags
    /\ ~IsValuePos(args, i - 1)

IsFlagPos(args, i) == ~IsValuePos(args, i) /\ args[i] \in ValueFlags
IsCleanPos(args, i) == ~IsValuePos(args, i) /\ args[i] = T_clean
IsKeptPos(args, i) == ~IsValuePos(args, i) /\ ~IsFlagPos(args, i) /\ ~IsCleanPos(args, i)

\* every value-consuming flag is followed by its value
WellFormed(args) == \A i \in 1..Len(args) : IsFlagPos(args, i) => i < Len(args)
Dangling(args) == Len(args) > 0 /\ IsFlagPos(args, Len(args))

\* the tokens at the positions the grammar does not consume, in order
RECURSIVE KeptUpTo(_, _)
KeptUpTo(args, n) ==
    IF n = 0 THEN <<>>
    ELSE KeptUpTo(args, n - 1) \o (IF IsKeptPos(args, n) THEN <<args[n]>> ELSE <<>>)

Kept(args) == KeptUpTo(args, Len(args))

\* s without its leading and trailing whitespace: the one slice of s that
\* neither starts nor ends with whitespace and leaves only whitespace outside
Trimmed(s) ==
    CHOOSE t \in {SubSeq(s, i, j) : i \in 1..(Len(s) + 1), j \in 0..Len(s)} :
        /\ t = <<>> \/ (t[1] \notin Whitespace /\ t[Len(t)] \notin Whitespace)
        /\ \E i \in 1..(Len(s) + 1), j \in 0..Len(s) :
              /\ t = SubSeq(s, i, j)
              /\ \A k \in 1..Len(s) : (k < i \/ k > j) => s[k] \in Whitespace

\* the switch the documentation promises for flag/value pair (flag, value)
PromisedSwitch(flag, value) ==
    CASE flag = T_yes -> <<"-", "D">> \o Trimmed(value) \o <<"=", "yes">>
      [] flag = T_no -> <<"-", "D">> \o Trimmed(value) \o <<"=", "no">>
      [] flag = T_compiler_flags -> <<"-", "D", "CMAKE_CXX_FLAGS", "=">> \o Trimmed(value)

RECURSIVE PromisedUpTo(_, _)
PromisedUpTo(args, n) ==
    IF n = 0 THEN <<>>
    ELSE PromisedUpTo(args, n - 1)
         \o (IF IsValuePos(args, n) THEN <<PromisedSwitch(args[n - 1], args[n])>> ELSE <<>>)

PromisedSwitches(args) == PromisedUpTo(args, Len(args))

BagOf(s) == [x \in Range(s) |-> Cardinality({i \in 1..Len(s) : s[i] = x})]

RecognizedFlags == ValueFlags \cup {T_clean}

(***************************************************************************)
(* Claims about get_extra_cmake_options (SpecExtract)                      *)
(***************************************************************************)

\* C1: for a well-formed argument list the filtered sys.argv is exactly the
\* list of the tokens that are neither a recognized flag nor a consumed
\* value, each once per original occurrence and in the original order, also
\* when a consumed value equals a token standing earlier in the list.
C1_FilteredKeepsOrder ==
    (x_pc = "done" /\ WellFormed(argv)) => sys_argv = Kept(argv)

\* C4: the switches returned are exactly the promised switch of every
\* flag/value pair, in the left-to-right order of the pairs, and nothing
\* else; the globals of line 79 receive them.
C4_SwitchPerPair ==
    x_pc = "done" =>
        /\ x_options = PromisedSwitches(argv)
        /\ cmake_extra_options = x_options
        /\ clean_build_folder = (\E i \in 1..Len(argv) : IsCleanPos(argv, i))

\* C4 witness: the documented example has been scanned and gave the three
\* documented switches in order.
C4_Witness ==
    /\ x_pc = "done"
    /\ argv = DocExample
    /\ x_options = << <<"-", "D", "FOO", "=", "yes">>,
                      <<"-", "D", "BAR", "=", "no">>,
                      <<"-", "D", "CMAKE_CXX_FLAGS", "=", "-", "O2", " ", "-", "Wall">> >>

\* C10: the scan never raises and always runs to its return; when the last
\* token is a value-consuming flag without a value, that flag is gone from
\* the filtered list, it produced no switch (one switch per complete pair),
\* and the filtered list still holds every unconsumed token, as many times
\* as it was given.
C10_DanglingFlagIgnored ==
    /\ x_pc # "error"
    /\ x_error = NoError
    /\ x_pc = "done" \/ ENABLED ExtractNext
    /\ (x_pc = "done" /\ Dangling(argv)) =>
          /\ argv[Len(argv)] \notin Range(sys_argv)
          /\ Len(x_options) = Cardinality({i \in 1..Len(argv) : IsValuePos(argv, i)})
          /\ BagOf(sys_argv) = BagOf(Kept(argv))

\* C10 witness: a list ending in a dangling flag, with a complete pair and
\* unconsumed tokens before it, has been scanned.
C10_Witness ==
    /\ x_pc = "done"
    /\ Dangling(argv)
    /\ Len(x_options) = 1
    /\ Len(sys_argv) >= 2

(***************************************************************************)
(* Vocabulary of the claims about the build (SpecBuild)                    *)
(***************************************************************************)
CallsOf(kind) == {i \in 1..Len(calls) : calls[i].kind = kind}

RemovalOps == {"os.unlink", "os.remove", "os.rmdir"}

\* the build ended in an exception raised while the folder was prepared
PrepareRaised ==
    /\ b_pc = "failed"
    /\ b_error.type \in {"NameError", "OSError"}
    /\ b_error # ExecNotFound

\* a -D<name>=<value> switch, its name and its value
IsDefine(sw) == Len(sw) >= 3 /\ sw[1] = "-" /\ sw[2] = "D" /\ "=" \in Range(sw)
EqPos(sw) == CHOOSE i \in 1..Len(sw) : sw[i] = "=" /\ \A j \in 1..(i - 1) : sw[j] # "="
SwitchName(sw) == SubSeq(sw, 3, EqPos(sw) - 1)
SwitchValue(sw) == SubSeq(sw, EqPos(sw) + 1, Len(sw))

N_LibOut == <<"CMAKE_LIBRARY_OUTPUT_DIRECTORY">>
N_PythonExe == <<"PYTHON_EXECUTABLE">>
N_BuildType == <<"CMAKE_BUILD_TYPE">>
N_LibOutDebug == <<"CMAKE_LIBRARY_OUTPUT_DIRECTORY", "_", "DEBUG">>
N_LibOutRelease == <<"CMAKE_LIBRARY_OUTPUT_DIRECTORY", "_", "RELEASE">>

\* positions of cmake_args holding the switches of the Option Extractor, and
\* those holding the -D switches build_extension generates itself
UserPos == {i \in 1..Len(cmake_args) : cmake_args[i] \in Range(cmake_extra_options)}
FixedPos == {i \in 1..Len(cmake_args) : IsDefine(cmake_args[i]) /\ i \notin UserPos}
FixedPosNamed(names) == {i \in FixedPos : SwitchName(cmake_args[i]) \in names}

\* the value the native builder ends up with for a name: the last one given
Effective(args, name) ==
    LET at == {i \in 1..Len(args) : IsDefine(args[i]) /\ SwitchName(args[i]) = name}
    IN  SwitchValue(args[CHOOSE i \in at : \A j \in at : j <= i])

\* the extra switches stand in cmake_args from position p on, in their order
ExtrasAt(p) ==
    /\ Len(cmake_args) >= p - 1 + Len(cmake_extra_options)
    /\ SubSeq(cmake_args, p, p - 1 + Len(cmake_extra_options)) = cmake_extra_options

Synthesized == b_pc \notin {"run", "build_extension"} /\ cmake_args # <<>>

\* the versions among VersionOutputs that are lower than 3.1.0
LowerThanMinimum(v) == v \in {V_2_8_12, V_3_0_2}

(***************************************************************************)
(* Claims about CMakeBuild (SpecBuild)                                     *)
(***************************************************************************)

\* C2: every build invocation directly follows a configure invocation in
\* the same directory that exited 0; a configure that exits non-zero is the
\* last invocation ever made, is made once, and ends the build with an
\* error carrying that exit status.
C2_BuildOnlyAfterConfigureOk ==
    /\ \A i \in CallsOf("build") :
          /\ i > 1
          /\ calls[i - 1].kind = "configure"
          /\ calls[i - 1].started /\ calls[i - 1].rc = 0
          /\ calls[i - 1].cwd = calls[i].cwd
    /\ Cardinality(CallsOf("configure")) <= 1
    /\ \A i \in CallsOf("configure") :
          (calls[i].started /\ calls[i].rc # 0) =>
              /\ i = Len(calls)
              /\ b_pc = "failed"
              /\ b_error.type = "CalledProcessError"
              /\ b_error.returncode = calls[i].rc

\* C2 witness: configure has exited with status 2 and the build has failed.
C2_Witness ==
    /\ b_pc = "failed"
    /\ Len(calls) > 0
    /\ calls[Len(calls)].kind = "configure"
    /\ calls[Len(calls)].rc = 2

\* C3: with the clean flag set and a writable build folder that holds a
\* read-only file (and nothing that refuses removal for another reason),
\* preparing the folder never raises, and configure is invoked on a folder
\* that exists and holds none of its prior contents.
C3_CleanRemovesReadOnly ==
    (/\ clean_build_folder
     /\ prior.exists /\ prior.dirmode = "rw"
     /\ \E f \in Files : prior.entries[f] = "ro"
     /\ \A f \in Files : prior.entries[f] # "busy")
    => /\ ~PrepareRaised
       /\ \A i \in CallsOf("configure") :
             calls[i].folder.exists /\ Present(calls[i].folder) = {}

\* C5 as claimed: cmake_args holds the library-output-directory switch, the
\* interpreter-path switch and the extra switches in extractor order, and
\* every extra switch stands after every -D switch build_extension
\* generates itself, the platform branch's included.
C5_ExtrasAfterEveryFixedSwitch ==
    Synthesized =>
        /\ FixedPosNamed({N_LibOut}) # {} /\ FixedPosNamed({N_PythonExe}) # {}
        /\ \E p \in 1..(Len(cmake_args) + 1) : ExtrasAt(p)
        /\ \A i \in FixedPos, j \in UserPos : i < j

\* C5 amended: cmake_args starts with the library-output-directory switch
\* and the interpreter-path switch, the extra switches follow them directly
\* in extractor order, and the platform branch's switches come after every
\* extra switch.  So a user switch named like one of the first two wins,
\* and the platform branch's build-type or per-configuration
\* output-directory switch wins over a user switch of its name.
C5_ExtrasBetweenFixedAndPlatform ==
    Synthesized =>
        /\ FixedPosNamed({N_LibOut}) = {1}
        /\ FixedPosNamed({N_PythonExe}) = {2}
        /\ SwitchValue(cmake_args[1]) = ExtDir
        /\ ExtrasAt(3)
        /\ FixedPosNamed({N_BuildType, N_LibOutDebug, N_LibOutRelease})
               = {3 + Len(cmake_extra_options)}
        /\ \A j \in UserPos :
              LET n == SwitchName(cmake_args[j])
              IN  /\ n \in {N_LibOut, N_PythonExe} =>
                        Effective(cmake_args, n) = Effective(cmake_extra_options, n)
                  /\ n \in {SwitchName(cmake_args[i]) : i \in FixedPos \ {1, 2}} =>
                        Effective(cmake_args, n) # Effective(cmake_extra_options, n)

\* C5 witness: on a POSIX host the user passed --yes CMAKE_BUILD_TYPE and
\* --no CMAKE_LIBRARY_OUTPUT_DIRECTORY, and cmake_args has been computed.
C5_Witness ==
    /\ Synthesized
    /\ ~env.windows
    /\ \E j \in UserPos : SwitchName(cmake_args[j]) = N_BuildType
    /\ Effective(cmake_args, N_LibOut) = <<"no">>

\* C6: when cmake is not on the path, on any platform, nothing touches the
\* build folder, no configure is attempted, and the build fails with the
\* error that names every extension.
C6_ToolNotFoundBeforeAnything ==
    ~env.cmake_found =>
        /\ fs_ops = <<>> /\ fs = prior
        /\ CallsOf("configure") = {}
        /\ b_pc = "failed" =>
              /\ b_error.type = "RuntimeError"
              /\ "names" \in DOMAIN b_error
              /\ \A i \in 1..Len(Extensions) : Extensions[i].name \in Range(b_error.names)

\* C8: on Windows a cmake lower than 3.1.0 ends run() with the version
\* error before the folder is touched and before configure or build is
\* invoked, and a cmake of at least 3.1.0 never gives that error; on any
\* other platform cmake is not asked for its version and run() raises
\* nothing of its own.
C8_WindowsVersionGate ==
    /\ (env.windows /\ env.cmake_found /\ LowerThanMinimum(env.cmake_version)
        /\ b_pc # "run") =>
          /\ b_pc = "failed"
          /\ b_error = UnsupportedToolVersion
          /\ fs = prior /\ fs_ops = <<>>
          /\ CallsOf("configure") = {} /\ CallsOf("build") = {}
    /\ (env.windows /\ env.cmake_found /\ ~LowerThanMinimum(env.cmake_version)) =>
          b_error # UnsupportedToolVersion
    /\ ~env.windows =>
          /\ CallsOf("version") = {}
          /\ b_error.type # "RuntimeError"

\* C8 witness: a Windows host with cmake 3.0.2 has been refused.
C8_Witness ==
    /\ env.windows
    /\ env.cmake_version = V_3_0_2
    /\ b_pc = "failed"
    /\ b_error = UnsupportedToolVersion

\* C9: a removal refused with permission-denied is followed by a chmod of
\* the same entry and by one more attempt of the same removal, and by no
\* third attempt; a build that failed while the folder was prepared has
\* invoked no configure.
C9_PermissionDeniedRetriedOnce ==
    /\ \A i \in 1..Len(fs_ops) :
          (/\ fs_ops[i].op \in RemovalOps
           /\ fs_ops[i].result = "EACCES"
           /\ (i = 1 \/ fs_ops[i - 1].op # "chmod"))
          => /\ Len(fs_ops) >= i + 2
             /\ fs_ops[i + 1] = FsOp("chmod", fs_ops[i].path, "ok")
             /\ fs_ops[i + 2].op = fs_ops[i].op /\ fs_ops[i + 2].path = fs_ops[i].path
             /\ (fs_ops[i + 2].result # "ok" => Len(fs_ops) = i + 2)
    /\ PrepareRaised => CallsOf("configure") = {}

(***************************************************************************)
(* Claims about read_version_from_cmakelists (SpecVersion)                 *)
(***************************************************************************)
VersionFields == <<"MAJOR", "MINOR", "PATCH">>

\* the lines of the file that set a field to a quoted value
SettersOf(f) ==
    {i \in 1..Len(cmake_file) :
        cmake_file[i].field = f /\ cmake_file[i].quoted # NoQuote}

Missing == {f \in Range(VersionFields) : SettersOf(f) = {}}

\* the value of the first line that sets the field
FirstValue(f) == cmake_file[CHOOSE i \in SettersOf(f) : \A j \in SettersOf(f) : i <= j].quoted

\* the exception carries the name of the field
Identifies(err, f) == "args" \in DOMAIN err /\ f \in Range(err.args)

Finished == v_pc \in {"done", "error"}

\* C7 as claimed: with all three fields present the dotted string is
\* returned; with a field absent nothing is returned and the error raised
\* identifies a field that is missing.
C7_MissingFieldIsNamed ==
    Finished =>
        /\ Missing = {} =>
              /\ v_pc = "done"
              /\ version = dotted(FirstValue("MAJOR"), FirstValue("MINOR"), FirstValue("PATCH"))
        /\ Missing # {} =>
              /\ v_pc = "error"
              /\ version = NoVersion
              /\ \E f \in Missing : Identifies(v_error, f)

\* C7 amended: with all three fields present the dotted string of the
\* first value of each field is returned; with a field absent nothing is
\* returned and the call fails with the IndexError of the first absent
\* field in the order MAJOR, MINOR, PATCH (the fields before it were read,
\* it and the ones after it were not); the error names no field.
C7_MissingFieldRaisesIndexError ==
    Finished =>
        /\ Missing = {} =>
              /\ v_pc = "done"
              /\ v_error = NoError
              /\ version = dotted(FirstValue("MAJOR"), FirstValue("MINOR"), FirstValue("PATCH"))
        /\ Missing # {} =>
              /\ v_pc = "error"
              /\ version = NoVersion
              /\ v_error.type = "IndexError"
              /\ \A f \in Range(VersionFields) : ~Identifies(v_error, f)
              /\ LET k == CHOOSE i \in 1..3 :
                             /\ VersionFields[i] \in Missing
                             /\ \A j \in 1..(i - 1) : VersionFields[j] \notin Missing
                     read == <<major, minor, patch>>
                 IN  \A i \in 1..3 :
                        read[i] = (IF i < k THEN FirstValue(VersionFields[i]) ELSE NoValue)

\* C7 witness: a file that sets MAJOR and MINOR and has no PATCH line with
\* a quoted value has been read, and the call has failed.
C7_Witness ==
    /\ v_pc = "error"
    /\ Missing = {"PATCH"}
    /\ major = <<"1", "9">>
    /\ minor = <<"2", "4">>

====
